---- MODULE Spec2Model ----
(***************************************************************************)
(* A model of the filter nodes of gtf_nodes/filters.py.                    *)
(*                                                                         *)
(* A node is a class with a static method f that takes tensors ("GTF")     *)
(* and scalar/string parameters and returns a 1-tuple holding a tensor.    *)
(* Tensors are objects: the model keeps them in a heap (a sequence of      *)
(* grids, an object's identity being its index), so that "returns the      *)
(* same object" and "returns a new tensor with the same values" differ.    *)
(* One (batch, channel) slice of a tensor is modelled: an h x w grid of    *)
(* numbers.  The routines of gtf_impl (imported as U and FT) are not part  *)
(* of src/; they are modelled from the specification's section 4.          *)
(***************************************************************************)
EXTENDS Integers, Sequences, FiniteSets, TLC

VARIABLES
    pc,      \* "call" | "hyst" | "returned" | "raised" | "written"
    node,    \* the node class whose f is invoked
    args,    \* the arguments of the invocation
    heap,    \* the tensors: heap[i] is the grid of object i
    heap0,   \* the heap as it was when f was entered (history variable)
    ret,     \* the object f returned (0: none)
    err,     \* the exception f raised ("none": none)
    calls,   \* the gtf_impl routines f called, in order
    wk,      \* hysteresis: the weak mask the propagation reads
    cur,     \* hysteresis: the mask propagated so far
    passes,  \* hysteresis: passes of the propagation made so far
    conn     \* hysteresis: the connectivity of the propagation, 4 or 8

vars == <<pc, node, args, heap, heap0, ret, err, calls, wk, cur, passes, conn>>

\* ------------------------------------------------------------- bounds

\* Finite element values are 0..MaxVal.
MaxVal == 1
\* Radii are 0..MaxRadius.
MaxRadius == 2
\* The one-row strip given to the hysteresis threshold has StripLen pixels.
StripLen == 7
\* Quantize is called with steps in 0..MaxSteps.
MaxSteps == 3

\* ------------------------------------------------------------- grids

\* A float that is not a number; every ordered comparison with it is false.
NaN == -1

Vals == 0..MaxVal

Pixels(h, w) == (1..h) \X (1..w)

Grids(h, w, V) == {[h |-> h, w |-> w, px |-> f] : f \in [Pixels(h, w) -> V]}

\* The placeholder for "no grid".
NoGrid == [h |-> 0, w |-> 0, px |-> <<>>]

SetMax(S) == CHOOSE x \in S : \A y \in S : y <= x
SetMin(S) == CHOOSE x \in S : \A y \in S : x <= y

\* Grid g with every element computed, as a tensor holds them: the same grid,
\* its elements evaluated once instead of at each read.
Stored(g) == CHOOSE x \in {g} : x.px = x.px

Clamp(i, lo, hi) == IF i < lo THEN lo ELSE IF i > hi THEN hi ELSE i

\* ------------------------------------------- gtf_impl.filters (FT), 4.2

\* Edge-replicate padding by r on every side: an out-of-bounds read returns
\* the nearest in-bounds value.
ReplicatePad(g, r) ==
    [h |-> g.h + 2 * r, w |-> g.w + 2 * r,
     px |-> [p \in Pixels(g.h + 2 * r, g.w + 2 * r) |->
                g.px[<<Clamp(p[1] - r, 1, g.h), Clamp(p[2] - r, 1, g.w)>>]]]

\* The cells of the padded grid under the (2r+1) x (2r+1) window of pixel p.
WindowCells(r, p) == {<<p[1] + di, p[2] + dj>> : di \in 0..(2 * r), dj \in 0..(2 * r)}

patch_max(g, r) ==
    LET pg == ReplicatePad(g, r)
    IN  [g EXCEPT !.px = [p \in Pixels(g.h, g.w) |->
                            SetMax({pg.px[c] : c \in WindowCells(r, p)})]]

patch_min(g, r) ==
    LET pg == ReplicatePad(g, r)
    IN  [g EXCEPT !.px = [p \in Pixels(g.h, g.w) |->
                            SetMin({pg.px[c] : c \in WindowCells(r, p)})]]

\* The middle element of the window's values in sorted order (the window
\* holds an odd number of cells).
WindowMedian(pg, cells) ==
    LET n == Cardinality(cells)
    IN  CHOOSE v \in {pg.px[c] : c \in cells} :
            /\ 2 * Cardinality({c \in cells : pg.px[c] < v}) < n
            /\ 2 * Cardinality({c \in cells : pg.px[c] <= v}) > n

patch_median(g, r) ==
    LET pg == ReplicatePad(g, r)
    IN  [g EXCEPT !.px = [p \in Pixels(g.h, g.w) |->
                            WindowMedian(pg, WindowCells(r, p))]]

\* ------------------------------------------- gtf_impl.filters (FT), 4.3

dilate(g, r) == patch_max(g, r)
erode(g, r) == patch_min(g, r)
open(g, r) == dilate(Stored(erode(g, r)), r)
close(g, r) == erode(Stored(dilate(g, r)), r)

\* ---------------------------------------------------------- outcomes

\* What a call of f does: return the object it was given ("same"), return a
\* newly allocated tensor ("new"), or raise ("raise").
ReturnSame(c) == [kind |-> "same", grid |-> NoGrid, err |-> "none", calls |-> c]
ReturnNew(g, c) == [kind |-> "new", grid |-> g, err |-> "none", calls |-> c]
Raise(e, c) == [kind |-> "raise", grid |-> NoGrid, err |-> e, calls |-> c]

\* The effect of outcome o of a call whose first tensor argument is object id.
Finish(o, id) ==
    /\ calls' = o.calls
    /\ err' = o.err
    /\ heap' = IF o.kind = "new" THEN Append(heap, o.grid) ELSE heap
    /\ ret' = CASE o.kind = "same" -> id
                [] o.kind = "new" -> Len(heap) + 1
                [] OTHER -> 0
    /\ pc' = IF o.kind = "raise" THEN "raised" ELSE "returned"

NoArgs == [gtf |-> 0, gtf2 |-> 0, operation |-> "", radius |-> 0,
           steps |-> 0, mode |-> ""]

\* ------------------------------------------------ MorphologicalFilter

\* The operation names the node's widget offers.
Operations == {"dilate", "erode", "open", "close"}

\* A name outside Operations.
OtherOperation == "sharpen"

MorphologicalFilter_f_NoShortCircuit(gtf, operation, radius) ==
    CASE operation = "dilate" -> ReturnNew(dilate(gtf, radius), <<"dilate">>)
      [] operation = "erode" -> ReturnNew(erode(gtf, radius), <<"erode">>)
      [] operation = "open" -> ReturnNew(open(gtf, radius), <<"open">>)
      [] operation = "close" -> ReturnNew(close(gtf, radius), <<"close">>)
      [] OTHER -> Raise("UnboundLocalError", <<>>)

MorphologicalFilter_f_DispatchFirst(gtf, operation, radius) ==
    IF operation \notin Operations
    THEN Raise("UnboundLocalError", <<>>)
    ELSE IF radius = 0
         THEN ReturnSame(<<>>)
         ELSE MorphologicalFilter_f_NoShortCircuit(gtf, operation, radius)

MorphologicalFilter_f_SwappedOpenClose(gtf, operation, radius) ==
    IF radius = 0
    THEN ReturnSame(<<>>)
    ELSE CASE operation = "dilate" -> ReturnNew(dilate(gtf, radius), <<"dilate">>)
           [] operation = "erode" -> ReturnNew(erode(gtf, radius), <<"erode">>)
           [] operation = "open" -> ReturnNew(close(gtf, radius), <<"close">>)
           [] operation = "close" -> ReturnNew(open(gtf, radius), <<"open">>)
           [] OTHER -> Raise("UnboundLocalError", <<>>)

\* MorphologicalFilter.f: radius 0 returns the argument itself; otherwise the
\* match statement binds `filtered` for the four names and for no other, and
\* `return (filtered, )` then raises UnboundLocalError.
MorphologicalFilter_f(gtf, operation, radius) ==
    IF radius = 0
    THEN ReturnSame(<<>>)
    ELSE CASE operation = "dilate" -> ReturnNew(dilate(gtf, radius), <<"dilate">>)
           [] operation = "erode" -> ReturnNew(erode(gtf, radius), <<"erode">>)
           [] operation = "open" -> ReturnNew(open(gtf, radius), <<"open">>)
           [] operation = "close" -> ReturnNew(close(gtf, radius), <<"close">>)
           [] OTHER -> Raise("UnboundLocalError", <<>>)

RunMorphologicalFilter ==
    /\ pc = "call"
    /\ node = "MorphologicalFilter"
    /\ \E o \in {MorphologicalFilter_f(heap[args.gtf], args.operation, args.radius)} :
          Finish(o, args.gtf)
    /\ UNCHANGED <<node, args, heap0, wk, cur, passes, conn>>

\* The grids the windowed filters are run on.
PatchShapes == {<<2, 3>>, <<1, 4>>}
PatchGrids == UNION {Grids(s[1], s[2], Vals) : s \in PatchShapes}

\* The state on entry to f of node n with heap h and arguments a.
Entry(n, h, a) ==
    /\ pc = "call"
    /\ node = n
    /\ heap = h
    /\ heap0 = h
    /\ args = a
    /\ ret = 0
    /\ err = "none"
    /\ calls = <<>>
    /\ wk = NoGrid
    /\ cur = NoGrid
    /\ passes = 0

InitMorph ==
    /\ conn = 8
    /\ \E g \in PatchGrids, op \in Operations \cup {OtherOperation}, r \in 0..MaxRadius :
           Entry("MorphologicalFilter", <<g>>,
                 [NoArgs EXCEPT !.gtf = 1, !.operation = op, !.radius = r])

NextMorph == RunMorphologicalFilter

SpecMorph == InitMorph /\ [][NextMorph]_vars

\* ---------------------------------------------------- BinaryThreshold

\* Element values of a float tensor: the finite ones and NaN.
FloatVals == Vals \cup {NaN}

\* a >= b on floats: false when either side is NaN.
GE(a, b) == a # NaN /\ b # NaN /\ a >= b
GT(a, b) == a # NaN /\ b # NaN /\ a > b

\* Two sizes broadcast when they are equal or one of them is 1.
Broadcastable(a, b) ==
    /\ (a.h = b.h \/ a.h = 1 \/ b.h = 1)
    /\ (a.w = b.w \/ a.w = 1 \/ b.w = 1)

\* The element of g that broadcasting puts at pixel p of the result.
At(g, p) == g.px[<<IF g.h = 1 THEN 1 ELSE p[1], IF g.w = 1 THEN 1 ELSE p[2]>>]

Max2(a, b) == IF a >= b THEN a ELSE b

BinaryThreshold_f_Strict(gtf, gtf_threshold) ==
    IF ~Broadcastable(gtf, gtf_threshold)
    THEN Raise("RuntimeError", <<>>)
    ELSE LET h == Max2(gtf.h, gtf_threshold.h)
             w == Max2(gtf.w, gtf_threshold.w)
         IN  ReturnNew([h |-> h, w |-> w,
                        px |-> [p \in Pixels(h, w) |->
                                  IF GT(At(gtf, p), At(gtf_threshold, p))
                                  THEN 1 ELSE 0]],
                       <<>>)

\* BinaryThreshold.f: (gtf >= gtf_threshold).to(torch.float), a new tensor of
\* the broadcast shape; sizes that do not broadcast raise RuntimeError.
BinaryThreshold_f(gtf, gtf_threshold) ==
    IF ~Broadcastable(gtf, gtf_threshold)
    THEN Raise("RuntimeError", <<>>)
    ELSE LET h == Max2(gtf.h, gtf_threshold.h)
             w == Max2(gtf.w, gtf_threshold.w)
         IN  ReturnNew([h |-> h, w |-> w,
                        px |-> [p \in Pixels(h, w) |->
                                  IF GE(At(gtf, p), At(gtf_threshold, p))
                                  THEN 1 ELSE 0]],
                       <<>>)

RunBinaryThreshold ==
    /\ pc = "call"
    /\ node = "BinaryThreshold"
    /\ \E o \in {BinaryThreshold_f(heap[args.gtf], heap[args.gtf2])} :
          Finish(o, args.gtf)
    /\ UNCHANGED <<node, args, heap0, wk, cur, passes, conn>>

\* The sizes of the thresholded grid and of the threshold grid; <<1, 3>>
\* broadcasts against neither <<2, 2>> nor <<1, 2>>.
ThresholdShapes == {<<2, 2>>, <<1, 1>>}
ThresholdShapes2 == {<<2, 2>>, <<1, 1>>, <<1, 2>>, <<1, 3>>}

\* f(g, t) with two tensors, or f(g, g) with one tensor passed twice.
InitThreshold ==
    /\ conn = 8
    /\ \E s \in ThresholdShapes : \E g \in Grids(s[1], s[2], FloatVals) :
         \/ \E s2 \in ThresholdShapes2 : \E t \in Grids(s2[1], s2[2], FloatVals) :
                Entry("BinaryThreshold", <<g, t>>,
                      [NoArgs EXCEPT !.gtf = 1, !.gtf2 = 2])
         \/ Entry("BinaryThreshold", <<g>>, [NoArgs EXCEPT !.gtf = 1, !.gtf2 = 1])

NextThreshold == RunBinaryThreshold

SpecThreshold == InitThreshold /\ [][NextThreshold]_vars

\* ------------------------------------- MinFilter, MaxFilter, MedianFilter

MinFilter_f_WiderWindow(gtf, radius) ==
    ReturnNew(patch_min(gtf, radius + 1), <<"patch_min">>)

MinFilter_f(gtf, radius) == ReturnNew(patch_min(gtf, radius), <<"patch_min">>)
MaxFilter_f(gtf, radius) == ReturnNew(patch_max(gtf, radius), <<"patch_max">>)
MedianFilter_f(gtf, radius) == ReturnNew(patch_median(gtf, radius), <<"patch_median">>)

RunMinFilter ==
    /\ pc = "call"
    /\ node = "MinFilter"
    /\ \E o \in {MinFilter_f(heap[args.gtf], args.radius)} :
          Finish(o, args.gtf)
    /\ UNCHANGED <<node, args, heap0, wk, cur, passes, conn>>

RunMaxFilter ==
    /\ pc = "call"
    /\ node = "MaxFilter"
    /\ \E o \in {MaxFilter_f(heap[args.gtf], args.radius)} :
          Finish(o, args.gtf)
    /\ UNCHANGED <<node, args, heap0, wk, cur, passes, conn>>

RunMedianFilter ==
    /\ pc = "call"
    /\ node = "MedianFilter"
    /\ \E o \in {MedianFilter_f(heap[args.gtf], args.radius)} :
          Finish(o, args.gtf)
    /\ UNCHANGED <<node, args, heap0, wk, cur, passes, conn>>

PatchNodes == {"MinFilter", "MaxFilter", "MedianFilter"}

\* FilterRadiusBase.INPUT_TYPES: radius is an INT with min 0.
InitPatch ==
    /\ conn = 8
    /\ \E n \in PatchNodes, g \in PatchGrids, r \in 0..MaxRadius :
           Entry(n, <<g>>, [NoArgs EXCEPT !.gtf = 1, !.radius = r])

NextPatch == RunMinFilter \/ RunMaxFilter \/ RunMedianFilter

SpecPatch == InitPatch /\ [][NextPatch]_vars

\* ------------------------------------------------------------ Quantize

\* The rounding modes (the keys of FT.F_MAP), and a name outside them.
Modes == {"round", "floor", "ceil"}
OtherMode == "nearest"

\* The level, among 0..steps-1, of value v of 0..MaxVal under mode m.
Level(v, steps, m) ==
    CASE m = "floor" -> (v * (steps - 1)) \div MaxVal
      [] m = "ceil" -> (v * (steps - 1) + MaxVal - 1) \div MaxVal
      [] m = "round" -> (2 * v * (steps - 1) + MaxVal) \div (2 * MaxVal)

\* FT.quantize, section 4.5: InvalidArgument for an unknown mode or steps < 2;
\* otherwise each value becomes its level k of steps - 1, written <<k, steps - 1>>
\* for the number k / (steps - 1).
quantize(g, steps, mode) ==
    IF mode \notin Modes \/ steps < 2
    THEN Raise("InvalidArgument", <<"quantize">>)
    ELSE ReturnNew([g EXCEPT !.px = [p \in Pixels(g.h, g.w) |->
                                       <<Level(g.px[p], steps, mode), steps - 1>>]],
                   <<"quantize">>)

Quantize_f_ClampedSteps(gtf, steps, mode) == quantize(gtf, Max2(steps, 2), mode)

\* Quantize.f passes its arguments to FT.quantize unchanged and returns what
\* it returns; an exception of FT.quantize propagates.
Quantize_f(gtf, steps, mode) == quantize(gtf, steps, mode)

RunQuantize ==
    /\ pc = "call"
    /\ node = "Quantize"
    /\ \E o \in {Quantize_f(heap[args.gtf], args.steps, args.mode)} :
          Finish(o, args.gtf)
    /\ UNCHANGED <<node, args, heap0, wk, cur, passes, conn>>

InitQuantize ==
    /\ conn = 8
    /\ \E g \in PatchGrids, k \in 0..MaxSteps, m \in Modes \cup {OtherMode} :
           Entry("Quantize", <<g>>, [NoArgs EXCEPT !.gtf = 1, !.steps = k, !.mode = m])

NextQuantize == RunQuantize

SpecQuantize == InitQuantize /\ [][NextQuantize]_vars

\* ------------------------------------------------- HysteresisThreshold

Abs(x) == IF x < 0 THEN 0 - x ELSE x

\* Pixels p and q are neighbours under connectivity k (4: edge; 8: edge or
\* corner).
Adjacent(p, q, k) ==
    LET di == Abs(p[1] - q[1])
        dj == Abs(p[2] - q[2])
    IN  IF k = 4 THEN di + dj = 1 ELSE (p # q /\ di <= 1 /\ dj <= 1)

Grow_SeedsDropped(c, weak, k) ==
    [c EXCEPT !.px = [p \in Pixels(c.h, c.w) |->
        IF weak.px[p] = 1 /\ \E q \in Pixels(c.h, c.w) : Adjacent(p, q, k) /\ c.px[q] = 1
        THEN 1 ELSE 0]]

\* One pass of the propagation: mask c, plus the weak pixels that have a
\* neighbour in c.
Grow(c, weak, k) ==
    [c EXCEPT !.px = [p \in Pixels(c.h, c.w) |->
        IF \/ c.px[p] = 1
           \/ (weak.px[p] = 1 /\ \E q \in Pixels(c.h, c.w) : Adjacent(p, q, k) /\ c.px[q] = 1)
        THEN 1 ELSE 0]]

HysteresisThreshold_f_Swapped(gtf_weak, gtf_strong) ==
    [weak |-> gtf_strong, strong |-> gtf_weak, calls |-> <<"hysteresis_threshold">>]

\* HysteresisThreshold.f calls FT.hysteresis_threshold(gtf_weak, gtf_strong):
\* the masks it hands over, in the order of the routine's parameters.
HysteresisThreshold_f(gtf_weak, gtf_strong) ==
    [weak |-> gtf_weak, strong |-> gtf_strong, calls |-> <<"hysteresis_threshold">>]

\* Entry to f and to FT.hysteresis_threshold: the propagation starts from the
\* strong mask.
RunHysteresisThreshold ==
    /\ pc = "call"
    /\ node = "HysteresisThreshold"
    /\ LET c == HysteresisThreshold_f(heap[args.gtf], heap[args.gtf2])
       IN  /\ wk' = c.weak
           /\ cur' = c.strong
           /\ calls' = c.calls
    /\ passes' = 0
    /\ pc' = "hyst"
    /\ UNCHANGED <<node, args, heap, heap0, ret, err, conn>>

\* The pixels of the masks in play.
NPix == cur.h * cur.w

\* One pass of FT.hysteresis_threshold, section 4.5: expand through the weak
\* pixels; a pass that adds no pixel is the last, and the mask is returned as
\* a new tensor.  The guard on passes keeps the counter finite; the loop
\* itself has no such test.
HystPass ==
    /\ pc = "hyst"
    /\ passes <= NPix
    /\ passes' = passes + 1
    /\ LET nxt == Grow(cur, wk, conn)
       IN  IF nxt = cur
           THEN /\ heap' = Append(heap, cur)
                /\ ret' = Len(heap) + 1
                /\ pc' = "returned"
                /\ cur' = cur
           ELSE /\ cur' = nxt
                /\ UNCHANGED <<heap, ret, pc>>
    /\ UNCHANGED <<node, args, heap0, err, calls, wk, conn>>

Masks(h, w) == Grids(h, w, {0, 1})

\* A one-row strip, where the two connectivities coincide, and a 2 x 3 grid
\* under each connectivity.
HystCases == {<<1, StripLen, 4>>, <<2, 3, 4>>, <<2, 3, 8>>}

InitHyst ==
    \E c \in HystCases :
        /\ conn = c[3]
        /\ \E weak \in Masks(c[1], c[2]), strong \in Masks(c[1], c[2]) :
              Entry("HysteresisThreshold", <<weak, strong>>,
                    [NoArgs EXCEPT !.gtf = 1, !.gtf2 = 2])

NextHyst == RunHysteresisThreshold \/ HystPass

\* f runs to completion once called: the call and every pass of the loop are
\* taken as long as they are enabled.
SpecHyst == InitHyst /\ [][NextHyst]_vars /\ WF_vars(NextHyst)

\* ------------------------------------------------ the caller's writes

\* The caller writes value v at pixel p of the tensor f returned, in place.
WriteReturned ==
    /\ pc = "returned"
    /\ \E p \in DOMAIN heap[ret].px, v \in Vals :
          /\ v # heap[ret].px[p]
          /\ heap' = [heap EXCEPT ![ret].px[p] = v]
    /\ pc' = "written"
    /\ UNCHANGED <<node, args, heap0, ret, err, calls, wk, cur, passes, conn>>

InitFrame == InitMorph \/ InitThreshold

NextFrame == RunMorphologicalFilter \/ RunBinaryThreshold \/ WriteReturned

SpecFrame == InitFrame /\ [][NextFrame]_vars

\* ============================================================== claims

\* f has finished, by returning or by raising.
Finished == pc \in {"returned", "raised"}

MorphFinished == node = "MorphologicalFilter" /\ Finished

\* C1: MorphologicalFilter.f with radius = 0 and an operation among dilate,
\* erode, open, close returns a grid equal to its input in every element and
\* calls none of FT.dilate, FT.erode, FT.open, FT.close.
C1_RadiusZeroIdentity ==
    (MorphFinished /\ args.radius = 0 /\ args.operation \in Operations)
        => /\ pc = "returned"
           /\ err = "none"
           /\ heap[ret] = heap0[args.gtf]
           /\ calls = <<>>

C1_Witness ==
    /\ MorphFinished
    /\ args.radius = 0
    /\ args.operation \in Operations
    /\ pc = "returned"
    /\ \E p \in DOMAIN heap[ret].px : heap[ret].px[p] # 0

\* C2: MorphologicalFilter.f with an operation name outside dilate, erode,
\* open, close fails with an InvalidArgument error and never returns a grid.
C2_UnknownOperationInvalidArgument ==
    (MorphFinished /\ args.operation \notin Operations)
        => (pc = "raised" /\ err = "InvalidArgument" /\ ret = 0)

\* The maximum and the minimum over the (2r+1) x (2r+1) window of each pixel,
\* an out-of-range coordinate read at the nearest in-range one.
WinMax(g, r) ==
    [g EXCEPT !.px = [p \in Pixels(g.h, g.w) |->
        SetMax({g.px[<<Clamp(p[1] + di, 1, g.h), Clamp(p[2] + dj, 1, g.w)>>] :
                    di \in (0 - r)..r, dj \in (0 - r)..r})]]

WinMin(g, r) ==
    [g EXCEPT !.px = [p \in Pixels(g.h, g.w) |->
        SetMin({g.px[<<Clamp(p[1] + di, 1, g.h), Clamp(p[2] + dj, 1, g.w)>>] :
                    di \in (0 - r)..r, dj \in (0 - r)..r})]]

MorphExpected(g, operation, r) ==
    CASE operation = "dilate" -> WinMax(g, r)
      [] operation = "erode" -> WinMin(g, r)
      [] operation = "open" -> WinMax(Stored(WinMin(g, r)), r)
      [] operation = "close" -> WinMin(Stored(WinMax(g, r)), r)

\* C7: for radius r >= 1, MorphologicalFilter.f returns the window maximum
\* for dilate, the window minimum for erode, the maximum of the minimum for
\* open and the minimum of the maximum for close, windows being
\* (2r+1) x (2r+1) with edge-replicate padding.
C7_MorphDispatch ==
    (MorphFinished /\ args.radius >= 1 /\ args.operation \in Operations)
        => /\ pc = "returned"
           /\ heap[ret] = MorphExpected(heap0[args.gtf], args.operation, args.radius)
           /\ calls = <<args.operation>>

\* An open whose result differs from the close of the same grid.
C7_Witness ==
    /\ MorphFinished
    /\ args.radius >= 1
    /\ args.operation = "open"
    /\ pc = "returned"
    /\ heap[ret] # heap0[args.gtf]
    /\ heap[ret] # close(heap0[args.gtf], args.radius)

\* C10: the radius check comes before the dispatch: with radius = 0 every
\* operation string, known or not, returns the input object and raises
\* nothing; the operation name decides the outcome only when radius # 0.
C10_RadiusCheckedFirst ==
    /\ (MorphFinished /\ args.radius = 0)
           => (pc = "returned" /\ err = "none" /\ ret = args.gtf /\ heap = heap0)
    /\ (MorphFinished /\ args.radius # 0)
           => (pc = "raised" <=> args.operation \notin Operations)

C10_Witness ==
    /\ MorphFinished
    /\ args.radius = 0
    /\ args.operation \notin Operations
    /\ pc = "returned"

\* The tensors f was given.
Inputs == {args.gtf} \cup (IF args.gtf2 = 0 THEN {} ELSE {args.gtf2})

\* C6: every filter invocation leaves each input grid unchanged and returns a
\* newly allocated grid, an object different from every input, so that a later
\* write to the returned grid does not change an input.
C6_ResultIsNewObject ==
    (pc \in {"returned", "written"})
        => /\ ret \notin Inputs
           /\ \A i \in DOMAIN heap0 : heap[i] = heap0[i]

BTReturned == node = "BinaryThreshold" /\ pc = "returned"

\* The original C5: BinaryThreshold.f(g, g) is 1 at every pixel.
C5_SelfThresholdAllOnes ==
    (BTReturned /\ heap0[args.gtf2] = heap0[args.gtf])
        => \A p \in DOMAIN heap[ret].px : heap[ret].px[p] = 1

\* C5 (amended): BinaryThreshold.f(g, t) returns a grid of the broadcast shape
\* whose element is 1 where the element of g is greater than or equal to the
\* broadcast element of t and 0 otherwise, a comparison with NaN counting as
\* not greater or equal; every output value is 0 or 1, and
\* BinaryThreshold.f(g, g) is 1 at every pixel where g is not NaN and 0 where
\* it is NaN.
C5_ThresholdElementwise ==
    BTReturned =>
        LET g == heap0[args.gtf]
            t == heap0[args.gtf2]
            out == heap[ret]
        IN  /\ out.h = Max2(g.h, t.h)
            /\ out.w = Max2(g.w, t.w)
            /\ \A p \in Pixels(out.h, out.w) :
                  LET a == g.px[<<IF g.h = 1 THEN 1 ELSE p[1], IF g.w = 1 THEN 1 ELSE p[2]>>]
                      b == t.px[<<IF t.h = 1 THEN 1 ELSE p[1], IF t.w = 1 THEN 1 ELSE p[2]>>]
                  IN  /\ out.px[p] \in {0, 1}
                      /\ out.px[p] = 1 <=> (a # NaN /\ b # NaN /\ a >= b)
            /\ (t = g) => \A p \in Pixels(out.h, out.w) :
                              out.px[p] = (IF g.px[p] = NaN THEN 0 ELSE 1)

\* A self-threshold of a grid holding both a NaN and a finite value.
C5_Witness ==
    /\ BTReturned
    /\ args.gtf2 = args.gtf
    /\ \E p, q \in DOMAIN heap[ret].px : heap[ret].px[p] = 0 /\ heap[ret].px[q] = 1

PatchFinished == node \in PatchNodes /\ Finished

\* C8: the patch min, patch max and patch median filters with radius 0 each
\* return a grid equal to their input element by element.
C8_PatchRadiusZeroIdentity ==
    (PatchFinished /\ args.radius = 0)
        => (pc = "returned" /\ heap[ret] = heap0[args.gtf])

C8_Witness ==
    /\ PatchFinished
    /\ node = "MedianFilter"
    /\ args.radius = 0
    /\ pc = "returned"
    /\ \E p, q \in DOMAIN heap[ret].px : heap[ret].px[p] # heap[ret].px[q]

QuantizeFinished == node = "Quantize" /\ Finished

HystReturned == node = "HysteresisThreshold" /\ pc = "returned"

\* The pixels set in mask m.
On(m) == {p \in Pixels(m.h, m.w) : m.px[p] = 1}

\* Set S holds every weak pixel that has a neighbour in S.
Closed(S, W) ==
    \A p \in W : (\E q \in S : Adjacent(p, q, conn)) => p \in S

\* The mask of a one-row strip whose set pixels are those of S, pixels being
\* numbered from 0.
Strip(n, S) == [h |-> 1, w |-> n, px |-> [p \in Pixels(1, n) |-> IF (p[2] - 1) \in S THEN 1 ELSE 0]]

\* C3: hysteresis_threshold(weak, strong) returns exactly the strong pixels
\* plus the weak pixels joined to a strong pixel by a path of adjacent weak
\* pixels, that is, the least set that holds the strong pixels and every weak
\* neighbour of a member; on the strip of 7 pixels with strong = {0} and
\* weak = {1,2,3,4,6} the output is {0,1,2,3,4}.
C3_HysteresisConnected ==
    HystReturned =>
        LET S == On(heap0[args.gtf2])
            W == On(heap0[args.gtf])
            out == heap[ret]
            O == On(out)
        IN  /\ out.h = heap0[args.gtf].h /\ out.w = heap0[args.gtf].w
            /\ \A p \in Pixels(out.h, out.w) : out.px[p] \in {0, 1}
            /\ S \subseteq O
            /\ O \subseteq S \cup W
            /\ Closed(O, W)
            /\ \A T \in SUBSET (O \ S) :
                  Closed(S \cup T, W) => T = O \ S
            /\ (/\ heap0[args.gtf2] = Strip(7, {0})
                /\ heap0[args.gtf] = Strip(7, {1, 2, 3, 4, 6}))
                   => out = Strip(7, {0, 1, 2, 3, 4})

C3_Witness ==
    /\ HystReturned
    /\ heap0[args.gtf2] = Strip(7, {0})
    /\ heap0[args.gtf] = Strip(7, {1, 2, 3, 4, 6})
    /\ heap[ret] = Strip(7, {0, 1, 2, 3, 4})

\* C4: the propagation terminates: every pass adds at least one weak pixel or
\* is the last pass, the number of passes never exceeds the number of pixels,
\* a pass that adds no pixel ends the iteration, and the result is returned.
C4_PropagationTerminates ==
    /\ [](node = "HysteresisThreshold" /\ pc \in {"hyst", "returned"}
             => passes <= NPix)
    /\ [][(pc = "hyst" /\ passes' # passes)
             => \/ /\ pc' = "hyst"
                   /\ On(cur) \subseteq On(cur')
                   /\ On(cur') \ On(cur) # {}
                   /\ On(cur') \ On(cur) \subseteq On(wk)
                \/ /\ pc' = "returned"
                   /\ cur' = cur
                   /\ Grow(cur, wk, conn) = cur]_vars
    /\ <>(pc = "returned")

\* The longest run: as many passes as there are pixels.
C4_Witness ==
    /\ HystReturned
    /\ passes = NPix
    /\ NPix > 1

====
